---- MODULE Spec2Model ----
(***************************************************************************)
(* Production-line barcode verifier.                                        *)
(*                                                                          *)
(*   Spec        run() of the keyboard-driven verifiers                     *)
(*               (production_line_verifier.py, ..._BARCODE.py)              *)
(*   SpecApi     the same, with verify_product also called directly         *)
(*   SpecDetect  detect_barcode of the BARCODE and HARDWARE_ENHANCED        *)
(*               verifiers applied to a frame                               *)
(*   SpecGpz     the gpiozero programs (..._HARDWARE_ENHANCED.py,           *)
(*               production_demo.py): main loop, callback thread, tone      *)
(*               threads, production threads                                *)
(*   SpecHardware the verifiers that poll RPi.GPIO or register gpiozero     *)
(*               handlers after setting up the pins in the constructor      *)
(*               (..._HARDWARE.py, ..._ENHANCED.py)                         *)
(*   SpecCounters every program that keeps the four scan counters,          *)
(*               run_demo_mode of ..._BARCODE.py included                   *)
(*   SpecDebugger debug_hardware/button_buzzer_debug.py: the menu and the   *)
(*               polling of the two buttons                                 *)
(*   SpecTones   the tone threads of the gpiozero programs, started at any  *)
(*               time                                                       *)
(*                                                                          *)
(* Time is counted in ticks of half a second.  A frame is described by what *)
(* pyzbar.decode yields on each preprocessing of it.  pyzbar hands back the *)
(* payload as bytes; a payload is either text (here "", "A", "B") or bytes  *)
(* that are not valid UTF-8 (Invalid).  Where the code decodes a payload    *)
(* outside a try (capture_reference, verify_product) the payload is text;   *)
(* exceptions raised by cv2 and pyzbar themselves are not modelled.  Each   *)
(* action of a thread is one atomic step; handle_start_button on the        *)
(* callback thread is split where it tests reference_barcode, where it      *)
(* writes production_mode, and where it reads reference_barcode again and   *)
(* writes last_scan_time.                                                   *)
(***************************************************************************)
EXTENDS Integers, Sequences, FiniteSets, Bags, TLC

VARIABLES
    variant,            \* which program runs
    reference_barcode,  \* self.reference_barcode
    reference_type,     \* self.reference_type
    production_mode,    \* self.production_mode
    stats,              \* self.stats
    last_scan_time,     \* self.last_scan_time
    log_file,           \* rows appended to the CSV log in this session
    now,                \* time.time()
    frame,              \* the frame the main loop holds
    pc,                 \* position of the main loop
    last_call,          \* history: the call the last step made and what it returned
    last_counted,       \* history: when the last counted scan happened (0: never)
    started,            \* history: production was started since the last counted scan
    capture_requested,  \* self.capture_requested
    callback,           \* position of the gpiozero callback thread
    tones,              \* the running buzzer_thread threads (a bag)
    buzzer,             \* the buzzer pin is on
    producers,          \* the running production_thread threads (production_demo.py)
    press,              \* history: the capture button was pressed and no
                        \* capture_reference attempt was made since
    GPIO,               \* the imported GPIO library, or None
    gpio_setup,         \* what setting up the pins does: "ok", or "failed" (it raises)
    gpio_available,     \* self.gpio_available / self.hardware_available
    last_start_btn_state,    \* self.last_start_btn_state
    last_capture_btn_state,  \* self.last_capture_btn_state
    pins,               \* the level of the button pins at the last poll
    start_presses,      \* self.start_presses
    capture_presses,    \* self.capture_presses
    buzzer_tests,       \* self.buzzer_tests
    observed,           \* history: the number of HIGH-to-LOW transitions of each
                        \* pin between successive polls, for how many polls on
                        \* end the start button has read LOW, and the most
                        \* tone threads that were alive at once
    current_demo_index  \* current_demo_index of run_demo_mode

hwvars == <<callback, tones, buzzer, producers, press>>

iovars == <<GPIO, gpio_setup, gpio_available, last_start_btn_state,
            last_capture_btn_state, pins, start_presses, capture_presses,
            buzzer_tests, observed, current_demo_index>>

vars == <<variant, reference_barcode, reference_type, production_mode, stats,
          last_scan_time, log_file, now, frame, pc, last_call, last_counted, started,
          capture_requested, callback, tones, buzzer, producers, press, GPIO,
          gpio_setup, gpio_available, last_start_btn_state, last_capture_btn_state,
          pins, start_presses, capture_presses, buzzer_tests, observed,
          current_demo_index>>

---------------------------------------------------------------------------
(* Bounds of the model *)
MaxTime == 6
MaxLog == 3

(* scan_interval = 1.5 s, in half-second ticks *)
ScanInterval == 3

None == "None"
Invalid == "\\xff"
Text == {"", "A", "B"}
Payloads == Text \cup {Invalid}
Types == {"EAN13", "CODE128"}

(* the levels of a pin: GPIO.HIGH, GPIO.LOW *)
HIGH == 1
LOW == 0

(* Python truthiness of reference_barcode: None and '' are falsy *)
Truthy(x) == x # None /\ x # ""

(* bytes.decode('utf-8'): the text, or UnicodeDecodeError *)
UnicodeDecodeError == "UnicodeDecodeError"
decode_utf8(data) == IF data = Invalid THEN UnicodeDecodeError ELSE data

Barcode(d, t) == [data |-> d, type |-> t]

(* What pyzbar.decode can yield on one image: up to MaxPerFrame symbols *)
MaxPerFrame == 2
RawBarcodes == {Barcode(Invalid, "CODE128"), Barcode("", "CODE128"),
                Barcode("A", "EAN13"), Barcode("B", "CODE128")}
TextBarcodes == {b \in RawBarcodes : b.data \in Text}
SeqsUpTo(S, n) == UNION {[1..m -> S] : m \in 0..n}
Outputs == SeqsUpTo(RawBarcodes, MaxPerFrame)
TextOutputs == SeqsUpTo(TextBarcodes, MaxPerFrame)

(* The decode attempts of detect_barcode, in the order the code makes them *)
AttemptsBase == <<"equalized_blur">>
AttemptsHw == <<"original", "gray", "equalized", "otsu", "adaptive", "clahe">>
AttemptsBarcode == AttemptsHw \o
    <<"sharpen", "scale_1.5", "scale_2.0", "scale_0.75",
      "binary_127", "binary_150", "binary_100", "otsu_inv", "morph_close">>
Attempts(v) == CASE v = "base" -> AttemptsBase
                 [] v = "barcode" -> AttemptsBarcode
                 [] OTHER -> AttemptsHw

(* A frame: attempts before the k-th yield pre, the k-th yields out, later ones post *)
Frame(k, pre, out, post) == [k |-> k, pre |-> pre, out |-> out, post |-> post]
pyzbar_decode(f, i) == IF i < f.k THEN f.pre ELSE IF i = f.k THEN f.out ELSE f.post

---------------------------------------------------------------------------
(* detect_barcode *)

(* add_unique_barcode without the test for empty data *)
add_unique_barcode_any_text(barcode, seen_data) ==
    LET data == decode_utf8(barcode.data)
    IN  /\ data # UnicodeDecodeError
        /\ data \notin seen_data

(* add_unique_barcode: TRUE iff the barcode is appended to all_barcodes *)
add_unique_barcode(barcode, seen_data) ==
    LET data == decode_utf8(barcode.data)
    IN  /\ data # UnicodeDecodeError
        /\ data # ""
        /\ data \notin seen_data

(* for barcode in barcodes: if add_unique_barcode(barcode): return all_barcodes *)
RECURSIVE FirstAdded(_, _)
FirstAdded(barcodes, j) ==
    IF j > Len(barcodes) THEN <<>>
    ELSE IF add_unique_barcode(barcodes[j], {}) THEN <<barcodes[j]>>
    ELSE FirstAdded(barcodes, j + 1)

(* The attempts from the i-th on; ran counts the pyzbar.decode calls made *)
RECURSIVE DetectFrom(_, _, _)
DetectFrom(f, attempts, i) ==
    IF i > Len(attempts) THEN [all_barcodes |-> <<>>, ran |-> Len(attempts)]
    ELSE LET added == FirstAdded(pyzbar_decode(f, i), 1)
         IN  IF added # <<>> THEN [all_barcodes |-> added, ran |-> i]
             ELSE DetectFrom(f, attempts, i + 1)

detect_run(v, f) ==
    IF v = "base" THEN [all_barcodes |-> pyzbar_decode(f, 1), ran |-> 1]
    ELSE DetectFrom(f, Attempts(v), 1)

detect_barcode(v, f) == detect_run(v, f).all_barcodes

---------------------------------------------------------------------------
(* The verifier object: ProductionLineVerifier / BarcodeProductionVerifier *)

Self == [reference_barcode |-> reference_barcode, reference_type |-> reference_type,
         production_mode |-> production_mode, stats |-> stats,
         last_scan_time |-> last_scan_time, log_file |-> log_file,
         capture_requested |-> capture_requested]

SetSelf(s) ==
    /\ reference_barcode' = s.reference_barcode
    /\ reference_type' = s.reference_type
    /\ production_mode' = s.production_mode
    /\ stats' = s.stats
    /\ last_scan_time' = s.last_scan_time
    /\ log_file' = s.log_file
    /\ capture_requested' = s.capture_requested

(* log_result writing the Reference column before the reference is known *)
log_result_no_reference(self, status, barcode, barcode_type) ==
    Append(self.log_file,
           [status |-> status, barcode |-> barcode, reference |-> "",
            type |-> barcode_type])

(* log_result: one CSV row; the Reference column is  self.reference_barcode or ''  *)
log_result(self, status, barcode, barcode_type) ==
    Append(self.log_file,
           [status |-> status, barcode |-> barcode,
            reference |-> IF Truthy(self.reference_barcode)
                          THEN self.reference_barcode ELSE "",
            type |-> barcode_type])

(* capture_reference taking the last detected barcode instead of the first *)
capture_reference_last(v, self, f) ==
    LET barcodes == detect_barcode(v, f)
    IN  IF barcodes = <<>> THEN [self |-> self, ret |-> "False"]
        ELSE LET barcode == barcodes[Len(barcodes)]
                 s1 == [self EXCEPT !.reference_barcode = decode_utf8(barcode.data),
                                    !.reference_type = barcode.type]
             IN  [self |-> [s1 EXCEPT !.log_file =
                                log_result(s1, "REFERENCE_SET",
                                           s1.reference_barcode, s1.reference_type)],
                  ret |-> "True"]

capture_reference(v, self, f) ==
    LET barcodes == detect_barcode(v, f)
    IN  IF barcodes = <<>> THEN [self |-> self, ret |-> "False"]
        ELSE LET barcode == barcodes[1]
                 s1 == [self EXCEPT !.reference_barcode = decode_utf8(barcode.data),
                                    !.reference_type = barcode.type]
             IN  [self |-> [s1 EXCEPT !.log_file =
                                log_result(s1, "REFERENCE_SET",
                                           s1.reference_barcode, s1.reference_type)],
                  ret |-> "True"]

(* verify_product without the throttle *)
verify_product_unthrottled(v, self, f, current_time) ==
    IF ~Truthy(self.reference_barcode) THEN [self |-> self, ret |-> None]
    ELSE
    LET s1 == [self EXCEPT !.last_scan_time = current_time,
                           !.stats.total_scans = @ + 1]
        barcodes == detect_barcode(v, f)
        hit == barcodes # <<>> /\ decode_utf8(barcodes[1].data) = self.reference_barcode
        status == IF barcodes = <<>> THEN "NO_BARCODE"
                  ELSE IF hit THEN "PASS" ELSE "MISMATCH"
        counter == IF barcodes = <<>> THEN "no_barcode"
                   ELSE IF hit THEN "passed" ELSE "mismatched"
        s2 == [s1 EXCEPT !.stats[counter] = @ + 1]
    IN  [self |-> [s2 EXCEPT !.log_file =
                       log_result(s2, status,
                                  IF barcodes = <<>> THEN "" ELSE decode_utf8(barcodes[1].data),
                                  IF barcodes = <<>> THEN "" ELSE barcodes[1].type)],
         ret |-> status]

(* verify_product comparing with any detected barcode, not the first *)
verify_product_any(v, self, f, current_time) ==
    IF ~Truthy(self.reference_barcode) THEN [self |-> self, ret |-> None]
    ELSE IF current_time - self.last_scan_time < ScanInterval
    THEN [self |-> self, ret |-> None]
    ELSE
    LET s1 == [self EXCEPT !.last_scan_time = current_time,
                           !.stats.total_scans = @ + 1]
        barcodes == detect_barcode(v, f)
        hit == \E j \in 1..Len(barcodes) :
                   decode_utf8(barcodes[j].data) = self.reference_barcode
        status == IF barcodes = <<>> THEN "NO_BARCODE"
                  ELSE IF hit THEN "PASS" ELSE "MISMATCH"
        counter == IF barcodes = <<>> THEN "no_barcode"
                   ELSE IF hit THEN "passed" ELSE "mismatched"
        s2 == [s1 EXCEPT !.stats[counter] = @ + 1]
    IN  [self |-> [s2 EXCEPT !.log_file =
                       log_result(s2, status,
                                  IF barcodes = <<>> THEN "" ELSE decode_utf8(barcodes[1].data),
                                  IF barcodes = <<>> THEN "" ELSE barcodes[1].type)],
         ret |-> status]

(* the counting of ENHANCED's verify_product: a frame without a barcode is
   not counted in total_scans *)
Bump_barcodes_only(st, counter) ==
    IF counter = "no_barcode" THEN [st EXCEPT !.no_barcode = @ + 1]
    ELSE [st EXCEPT !.total_scans = @ + 1, ![counter] = @ + 1]

(* self.stats['total_scans'] += 1 ... self.stats[counter] += 1 *)
Bump(st, counter) ==
    [st EXCEPT !.total_scans = @ + 1, ![counter] = @ + 1]

verify_product(v, self, f, current_time) ==
    IF ~Truthy(self.reference_barcode) THEN [self |-> self, ret |-> None]
    ELSE IF current_time - self.last_scan_time < ScanInterval
    THEN [self |-> self, ret |-> None]
    ELSE
    LET s1 == [self EXCEPT !.last_scan_time = current_time]
        barcodes == detect_barcode(v, f)
    IN  IF barcodes = <<>>
        THEN LET s2 == [s1 EXCEPT !.stats = Bump(@, "no_barcode")]
             IN  [self |-> [s2 EXCEPT !.log_file = log_result(s2, "NO_BARCODE", "", "")],
                  ret |-> "NO_BARCODE"]
        ELSE
        LET barcode == barcodes[1]
            detected_barcode == decode_utf8(barcode.data)
            detected_type == barcode.type
        IN  IF detected_barcode = self.reference_barcode
            THEN LET s2 == [s1 EXCEPT !.stats = Bump(@, "passed")]
                 IN  [self |-> [s2 EXCEPT !.log_file =
                                    log_result(s2, "PASS", detected_barcode, detected_type)],
                      ret |-> "PASS"]
            ELSE LET s2 == [s1 EXCEPT !.stats = Bump(@, "mismatched")]
                 IN  [self |-> [s2 EXCEPT !.log_file =
                                    log_result(s2, "MISMATCH", detected_barcode, detected_type)],
                      ret |-> "MISMATCH"]

(* 's' toggling production mode without looking at the reference *)
toggle_production_unchecked(self) ==
    LET s1 == [self EXCEPT !.production_mode = ~@]
    IN  IF s1.production_mode THEN [s1 EXCEPT !.last_scan_time = 0] ELSE s1

(* 's': toggle production mode, refused without a reference *)
toggle_production(self) ==
    IF ~Truthy(self.reference_barcode) THEN self
    ELSE LET s1 == [self EXCEPT !.production_mode = ~@]
         IN  IF s1.production_mode THEN [s1 EXCEPT !.last_scan_time = 0] ELSE s1

(* 'r' also clearing the statistics *)
reset_reference_and_stats(self) ==
    [self EXCEPT !.reference_barcode = None, !.reference_type = None,
                 !.production_mode = FALSE,
                 !.stats = [total_scans |-> 0, passed |-> 0, mismatched |-> 0,
                            no_barcode |-> 0]]

(* 'r': reset the reference *)
reset_reference(self) ==
    [self EXCEPT !.reference_barcode = None, !.reference_type = None,
                 !.production_mode = FALSE]

---------------------------------------------------------------------------
(* run(): the main loop of the keyboard-driven verifiers *)

NoFrame == Frame(1, <<>>, <<>>, <<>>)

(* The frames the camera delivers, by what the decoder yields on them: nothing,
   one symbol, or two symbols with different payloads.  The base verifier
   decodes once and takes the payload as text; the BARCODE verifier walks its
   attempts, and a symbol may show only in the last one. *)
KbdFrames(v) ==
    IF v = "base"
    THEN {Frame(1, <<>>, o, <<>>) :
             o \in {<<>>, <<Barcode("", "CODE128")>>, <<Barcode("A", "EAN13")>>,
                    <<Barcode("B", "CODE128")>>,
                    <<Barcode("A", "EAN13"), Barcode("B", "CODE128")>>,
                    <<Barcode("B", "CODE128"), Barcode("A", "EAN13")>>}}
    ELSE {Frame(1, <<>>, o, <<>>) :
             o \in {<<>>, <<Barcode("A", "EAN13")>>, <<Barcode("B", "CODE128")>>,
                    <<Barcode(Invalid, "CODE128"), Barcode("A", "EAN13")>>,
                    <<Barcode("", "CODE128"), Barcode("B", "CODE128")>>}}
         \cup {Frame(Len(AttemptsBarcode), <<Barcode(Invalid, "CODE128")>>, o, <<>>) :
                  o \in {<<>>, <<Barcode("A", "EAN13")>>}}

(* Both buttons released (pulled up), no poll made yet *)
Released == [start |-> HIGH, capture |-> HIGH]
NoPolls == [start |-> 0, capture |-> 0, held |-> 0, threads |-> 0]

(* The GPIO side of the programs that do not poll their buttons; the gpiozero
   programs of SpecGpz run with their hardware set up *)
InitIo ==
    /\ GPIO = None
    /\ gpio_setup = "ok"
    /\ gpio_available = (variant \in {"hw_enhanced", "demo"})
    /\ last_start_btn_state = HIGH
    /\ last_capture_btn_state = HIGH
    /\ pins = Released
    /\ start_presses = 0
    /\ capture_presses = 0
    /\ buzzer_tests = 0
    /\ observed = NoPolls
    /\ current_demo_index = 0

KbdVariant == variant \in {"base", "barcode"}

InitObject ==
    /\ InitIo
    /\ reference_barcode = None
    /\ reference_type = None
    /\ production_mode = FALSE
    /\ stats = [total_scans |-> 0, passed |-> 0, mismatched |-> 0, no_barcode |-> 0]
    /\ last_scan_time = 0
    /\ log_file = <<>>
    /\ now = ScanInterval
    /\ last_call = [op |-> "init", ret |-> None]
    /\ last_counted = 0
    /\ started = FALSE
    /\ capture_requested = FALSE
    /\ callback = "idle"
    /\ tones = EmptyBag
    /\ buzzer = FALSE
    /\ producers = <<>>
    /\ press = [unserved |-> FALSE]

Init ==
    /\ variant \in {"base", "barcode"}
    /\ InitObject
    /\ frame = NoFrame
    /\ pc = "read"

Called(op, ret) == last_call' = [op |-> op, ret |-> ret]

(* history of the counted scans *)
Track(s, t) ==
    IF s.stats.total_scans > stats.total_scans
    THEN last_counted' = t /\ started' = FALSE
    ELSE UNCHANGED <<last_counted, started>>

(* ret, frame = cap.read(); then verify_product(frame) in production mode *)
ReadFrame ==
    /\ KbdVariant
    /\ pc = "read"
    /\ \E f \in KbdFrames(variant), dt \in 0..ScanInterval :
        /\ now + dt <= MaxTime
        /\ now' = now + dt
        /\ frame' = f
        /\ IF production_mode /\ Truthy(reference_barcode)
           THEN LET r == verify_product(variant, Self, f, now + dt)
                IN  /\ Len(r.self.log_file) <= MaxLog
                    /\ SetSelf(r.self)
                    /\ Called("verify_product", r.ret)
                    /\ Track(r.self, now + dt)
           ELSE /\ SetSelf(Self)
                /\ Called("read", None)
                /\ UNCHANGED <<last_counted, started>>
    /\ pc' = "key"
    /\ UNCHANGED <<variant, iovars, hwvars>>

(* cap.read() fails: the loop breaks *)
CameraLost ==
    /\ KbdVariant
    /\ pc = "read"
    /\ pc' = "done"
    /\ Called("read", None)
    /\ UNCHANGED <<variant, iovars, reference_barcode, reference_type, production_mode, stats,
                   last_scan_time, log_file, now, frame, last_counted, started,
                   capture_requested, hwvars>>

(* one key handled; the next iteration reads a new frame *)
KeyStep(op, s) ==
    /\ KbdVariant
    /\ pc = "key"
    /\ pc' = "read"
    /\ frame' = NoFrame
    /\ SetSelf(s)
    /\ Called(op, None)
    /\ UNCHANGED <<variant, iovars, now, last_counted, hwvars>>

KeyQ ==
    /\ KbdVariant
    /\ pc = "key"
    /\ pc' = "done"
    /\ Called("key", None)
    /\ UNCHANGED <<variant, iovars, reference_barcode, reference_type, production_mode, stats,
                   last_scan_time, log_file, now, frame, last_counted, started,
                   capture_requested, hwvars>>

KeyC ==
    /\ KbdVariant
    /\ pc = "key"
    /\ pc' = "read"
    /\ LET r == capture_reference(variant, Self, frame)
       IN  /\ Len(r.self.log_file) <= MaxLog
           /\ SetSelf(r.self)
           /\ Called("capture_reference", r.ret)
    /\ frame' = NoFrame
    /\ UNCHANGED <<variant, iovars, now, last_counted, started, hwvars>>

KeyS ==
    /\ KeyStep("key", toggle_production(Self))
    /\ started' = (started \/ (~production_mode /\ toggle_production(Self).production_mode))

KeyR == KeyStep("key", reset_reference(Self)) /\ UNCHANGED started

(* view_logs() only reads the log file *)
KeyL == KeyStep("key", Self) /\ UNCHANGED started

KeyH == KeyStep("key", Self) /\ UNCHANGED started

(* no key, or a key the loop does not handle *)
KeyOther == KeyStep("key", Self) /\ UNCHANGED started

Next ==
    \/ ReadFrame
    \/ CameraLost
    \/ KeyQ
    \/ KeyC
    \/ KeyS
    \/ KeyR
    \/ KeyL
    \/ KeyH
    \/ KeyOther

Spec == Init /\ [][Next]_vars

(* A caller that reads a frame and calls verify_product whatever the mode *)
CallVerifyProduct ==
    /\ KbdVariant
    /\ pc = "read"
    /\ \E f \in KbdFrames(variant), dt \in 0..ScanInterval :
        /\ now + dt <= MaxTime
        /\ now' = now + dt
        /\ frame' = f
        /\ LET r == verify_product(variant, Self, f, now + dt)
           IN  /\ Len(r.self.log_file) <= MaxLog
               /\ SetSelf(r.self)
               /\ Called("verify_product", r.ret)
               /\ Track(r.self, now + dt)
    /\ pc' = "key"
    /\ UNCHANGED <<variant, iovars, hwvars>>

NextApi ==
    \/ Next
    \/ CallVerifyProduct

SpecApi == Init /\ [][NextApi]_vars

---------------------------------------------------------------------------
(* detect_barcode of the BARCODE and HARDWARE_ENHANCED verifiers on its own,
   applied to a frame *)

DetectPre == {<<>>, <<Barcode(Invalid, "CODE128")>>,
              <<Barcode("", "CODE128"), Barcode(Invalid, "CODE128")>>,
              <<Barcode("B", "CODE128")>>}
DetectPost == {<<>>, <<Barcode("B", "CODE128")>>}

DetectFrames(v) ==
    {Frame(k, pre, out, post) :
        k \in 1..Len(Attempts(v)), pre \in DetectPre, out \in Outputs, post \in DetectPost}

InitDetect ==
    /\ variant \in {"barcode", "hw_enhanced"}
    /\ InitObject
    /\ frame \in DetectFrames(variant)
    /\ pc = "detect"

DetectCall ==
    /\ pc = "detect"
    /\ pc' = "done"
    /\ Called("detect_barcode", detect_run(variant, frame))
    /\ UNCHANGED <<variant, iovars, reference_barcode, reference_type, production_mode, stats,
                   last_scan_time, log_file, now, frame, last_counted, started,
                   capture_requested, hwvars>>

NextDetect == DetectCall

SpecDetect == InitDetect /\ [][NextDetect]_vars

---------------------------------------------------------------------------
(* The gpiozero programs: production_line_verifier_HARDWARE_ENHANCED.py
   ("hw_enhanced") and production_demo.py ("demo").  The button handlers run
   on gpiozero's callback thread, every tone on a thread of its own, and the
   demo's simulated scans on production_thread threads. *)

MaxTones == 1
(* rows the hardware verifiers append to their log *)
MaxHwLog == 2
MaxProducers == 2
MaxScans == 5

(* rounds of buzzer on ... buzzer off of each tone, by program *)
Beeps(v, tone_type) ==
    IF v = "demo"
    THEN CASE tone_type = "capture" -> 3
           [] tone_type = "start" -> 1
           [] tone_type = "stop" -> 2
           [] tone_type = "pass" -> 1
           [] tone_type = "fail" -> 2
    ELSE IF v = "hardware"
    THEN CASE tone_type = "reference_captured" -> 3
           [] tone_type = "pass" -> 1
           [] tone_type = "mismatch" -> 2
           [] tone_type = "no_barcode" -> 1
           [] tone_type = "error" -> 3
           [] tone_type = "start" -> 1
           [] tone_type = "stop" -> 1
    ELSE IF v = "enhanced"
    THEN CASE tone_type = "reference_captured" -> 3
           [] tone_type = "pass" -> 1
           [] tone_type = "mismatch" -> 2
           [] tone_type = "start" -> 1
           [] tone_type = "stop" -> 2
           [] tone_type = "error" -> 5
    ELSE CASE tone_type = "success" -> 1
           [] tone_type = "mismatch" -> 2
           [] tone_type = "no_barcode" -> 1
           [] tone_type = "reference_captured" -> 3
           [] tone_type = "start" -> 1
           [] tone_type = "stop" -> 1
           [] tone_type = "error" -> 3

(* play_buzzer_tone: start a buzzer_thread for the tone (None: no tone) *)
play_buzzer_tone(ts, v, tone_type) ==
    IF tone_type = None THEN ts
    ELSE ts (+) SetToBag({[left |-> Beeps(v, tone_type), on |-> FALSE]})

Play(tone_type) ==
    /\ tone_type # None => BagCardinality(tones) < MaxTones
    /\ tones' = play_buzzer_tone(tones, variant, tone_type)

RemoveAt(seq, i) == SubSeq(seq, 1, i - 1) \o SubSeq(seq, i + 1, Len(seq))

Running == pc # "done"

(* buzzer_thread: self.buzzer.on() *)
ToneOn(t) ==
    /\ Running
    /\ ~t.on
    /\ tones' = (tones (-) SetToBag({t})) (+) SetToBag({[t EXCEPT !.on = TRUE]})
    /\ buzzer' = TRUE
    /\ UNCHANGED <<variant, iovars, reference_barcode, reference_type, production_mode, stats,
                   last_scan_time, log_file, now, frame, pc, last_call, last_counted,
                   started, capture_requested, callback, producers, press>>

(* a buzzer_thread that ends after its last round without self.buzzer.off() *)
ToneOff_last_stays_on(t) ==
    /\ Running
    /\ t.on
    /\ tones' = IF t.left = 1 THEN tones (-) SetToBag({t})
                ELSE (tones (-) SetToBag({t}))
                         (+) SetToBag({[left |-> t.left - 1, on |-> FALSE]})
    /\ buzzer' = (t.left = 1 /\ buzzer)
    /\ UNCHANGED <<variant, iovars, reference_barcode, reference_type, production_mode, stats,
                   last_scan_time, log_file, now, frame, pc, last_call, last_counted,
                   started, capture_requested, callback, producers, press>>

(* buzzer_thread: self.buzzer.off(); the thread ends after its last round *)
ToneOff(t) ==
    /\ Running
    /\ t.on
    /\ tones' = IF t.left = 1 THEN tones (-) SetToBag({t})
                ELSE (tones (-) SetToBag({t}))
                         (+) SetToBag({[left |-> t.left - 1, on |-> FALSE]})
    /\ buzzer' = FALSE
    /\ UNCHANGED <<variant, iovars, reference_barcode, reference_type, production_mode, stats,
                   last_scan_time, log_file, now, frame, pc, last_call, last_counted,
                   started, capture_requested, callback, producers, press>>

ToneStep == \E t \in BagToSet(tones) : ToneOn(t) \/ ToneOff(t)

---------------------------------------------------------------------------
(* HardwareBarcodeVerifier *)

(* handle_capture_button also counting a scan *)
handle_capture_button_counting(self) ==
    [self EXCEPT !.capture_requested = TRUE, !.stats.total_scans = @ + 1]

handle_capture_button(self) == [self EXCEPT !.capture_requested = TRUE]

(* handle_start_button:  self.production_mode = not self.production_mode  *)
start_button_toggle(self) == [self EXCEPT !.production_mode = ~@]

(* handle_start_button:  self.last_scan_time = 0  *)
start_button_reset(self) == [self EXCEPT !.last_scan_time = 0]

(* handle_start_button run without interruption *)
handle_start_button(self) ==
    IF ~Truthy(self.reference_barcode) THEN self
    ELSE LET s1 == start_button_toggle(self)
         IN  IF s1.production_mode THEN start_button_reset(s1) ELSE s1

StartTone(self) ==
    IF ~Truthy(self.reference_barcode) THEN "error"
    ELSE IF ~self.production_mode THEN "start" ELSE "stop"

ResultTone(ret) == CASE ret = "PASS" -> "success"
                     [] ret = "MISMATCH" -> "mismatch"
                     [] ret = "NO_BARCODE" -> "no_barcode"
                     [] ret = "True" -> "reference_captured"
                     [] ret = "False" -> "no_barcode"
                     [] OTHER -> None

(* the frames the camera delivers: with no barcode, or with one *)
HwFrames == {Frame(1, <<>>, o, <<>>) : o \in {<<>>, <<Barcode("A", "EAN13")>>}}

Served == [press EXCEPT !.unserved = FALSE]

(* ret, frame = cap.read() *)
HwRead ==
    /\ variant = "hw_enhanced"
    /\ pc = "read"
    /\ \E f \in HwFrames, dt \in {0, ScanInterval} :
        /\ now + dt <= MaxTime
        /\ now' = now + dt
        /\ frame' = f
    /\ pc' = "request"
    /\ UNCHANGED <<variant, iovars, last_call, reference_barcode, reference_type, production_mode,
                   stats, last_scan_time, log_file, last_counted, started,
                   capture_requested, hwvars>>

(* if self.capture_requested: *)
HwCheckRequest ==
    /\ variant = "hw_enhanced"
    /\ pc = "request"
    /\ pc' = IF capture_requested THEN "capture" ELSE "verify"
    /\ UNCHANGED <<variant, iovars, last_call, reference_barcode, reference_type, production_mode, stats,
                   last_scan_time, log_file, now, frame, last_counted, started,
                   capture_requested, hwvars>>

(* self.capture_reference(frame), for the request *)
HwCapture ==
    /\ variant = "hw_enhanced"
    /\ pc = "capture"
    /\ pc' = "clear"
    /\ LET r == capture_reference(variant, Self, frame)
       IN  /\ Len(r.self.log_file) <= MaxHwLog
           /\ SetSelf(r.self)
           /\ Play(ResultTone(r.ret))
    /\ press' = Served
    /\ UNCHANGED <<variant, iovars, last_call, now, frame, last_counted, started, callback, buzzer, producers>>

(* self.capture_requested = False, in either branch *)
HwClearRequest ==
    /\ variant = "hw_enhanced"
    /\ pc = "clear"
    /\ pc' = "verify"
    /\ capture_requested' = FALSE
    /\ UNCHANGED <<variant, iovars, last_call, reference_barcode, reference_type, production_mode, stats,
                   last_scan_time, log_file, now, frame, last_counted, started, hwvars>>

(* if self.production_mode and self.reference_barcode: self.verify_product(frame) *)
HwVerify ==
    /\ variant = "hw_enhanced"
    /\ pc = "verify"
    /\ pc' = "key"
    /\ IF production_mode /\ Truthy(reference_barcode)
       THEN LET r == verify_product(variant, Self, frame, now)
            IN  /\ Len(r.self.log_file) <= MaxHwLog
                /\ SetSelf(r.self)
                /\ Track(r.self, now)
                /\ Play(ResultTone(r.ret))
       ELSE /\ SetSelf(Self)
            /\ UNCHANGED <<last_counted, started, tones>>
    /\ UNCHANGED <<variant, iovars, last_call, now, frame, callback, buzzer, producers, press>>

(* 'c': self.capture_reference(frame) *)
HwKeyC ==
    /\ variant = "hw_enhanced"
    /\ pc = "key"
    /\ pc' = "read"
    /\ LET r == capture_reference(variant, Self, frame)
       IN  /\ Len(r.self.log_file) <= MaxHwLog
           /\ SetSelf(r.self)
           /\ Play(ResultTone(r.ret))
    /\ press' = Served
    /\ frame' = NoFrame
    /\ UNCHANGED <<variant, iovars, last_call, now, last_counted, started, callback, buzzer, producers>>

(* 's': self.handle_start_button(), on the main thread *)
HwKeyS ==
    /\ variant = "hw_enhanced"
    /\ pc = "key"
    /\ pc' = "read"
    /\ SetSelf(handle_start_button(Self))
    /\ Play(StartTone(Self))
    /\ started' = (started \/ (~production_mode /\ handle_start_button(Self).production_mode))
    /\ frame' = NoFrame
    /\ UNCHANGED <<variant, iovars, last_call, now, last_counted, callback, buzzer, producers, press>>

(* cap.read() fails: the loop breaks *)
HwCameraLost ==
    /\ variant = "hw_enhanced"
    /\ pc = "read"
    /\ pc' = "done"
    /\ UNCHANGED <<variant, iovars, reference_barcode, reference_type, production_mode, stats,
                   last_scan_time, log_file, now, frame, last_call, last_counted, started,
                   capture_requested, hwvars>>

(* a key handled on the main thread without a tone; the next iteration reads
   a new frame *)
HwKeyStep(next, s) ==
    /\ variant = "hw_enhanced"
    /\ pc = "key"
    /\ pc' = next
    /\ frame' = NoFrame
    /\ SetSelf(s)
    /\ UNCHANGED <<variant, iovars, now, last_call, last_counted, started, hwvars>>

HwKeyQ == HwKeyStep("done", Self)

HwKeyR == HwKeyStep("read", reset_reference(Self))

(* 'l', 'h', no key, or a key the loop does not handle *)
HwKeyOther == HwKeyStep("read", Self)

(* the callback thread is free to take the next press *)
Accepting == callback = "idle"

(* the capture button is pressed: handle_capture_button on the callback thread *)
PressCapture ==
    /\ variant = "hw_enhanced"
    /\ Running
    /\ Accepting
    /\ SetSelf(handle_capture_button(Self))
    /\ press' = [press EXCEPT !.unserved = TRUE]
    /\ UNCHANGED <<variant, iovars, now, frame, pc, last_call, last_counted, started,
                   callback, tones, buzzer, producers>>

(* the start button is pressed: handle_start_button on the callback thread, its
   test  if not self.reference_barcode:  (and the whole of that branch) *)
PressStart ==
    /\ variant = "hw_enhanced"
    /\ Running
    /\ Accepting
    /\ IF ~Truthy(reference_barcode)
       THEN /\ Play("error")
            /\ callback' = "idle"
       ELSE /\ callback' = "checked"
            /\ UNCHANGED tones
    /\ UNCHANGED <<variant, iovars, reference_barcode, reference_type, production_mode,
                   stats, last_scan_time, log_file, capture_requested, now, frame, pc,
                   last_call, last_counted, started, buzzer, producers, press>>

(* handle_start_button on the callback thread, after the test found a
   reference:  self.production_mode = not self.production_mode  (and the whole
   of the branch that switches production off) *)
StartToggle ==
    /\ Running
    /\ callback = "checked"
    /\ SetSelf(start_button_toggle(Self))
    /\ IF ~production_mode
       THEN /\ callback' = "started"
            /\ started' = TRUE
            /\ UNCHANGED tones
       ELSE /\ Play("stop")
            /\ callback' = "idle"
            /\ UNCHANGED started
    /\ UNCHANGED <<variant, iovars, now, frame, pc, last_call, last_counted, buzzer,
                   producers, press>>

(* handle_start_button on the callback thread, after the toggle switched
   production on:  display_status(..., f"Ref: {self.reference_barcode[:8]}...") ,
   which raises TypeError on None and ends the handler there, then
   play_buzzer_tone('start') and last_scan_time = 0 *)
StartReset ==
    /\ Running
    /\ callback = "started"
    /\ IF reference_barcode = None
       THEN /\ callback' = "idle"
            /\ SetSelf(Self)
            /\ UNCHANGED tones
       ELSE /\ callback' = "idle"
            /\ SetSelf(start_button_reset(Self))
            /\ Play("start")
    /\ UNCHANGED <<variant, iovars, now, frame, pc, last_call, last_counted, started, buzzer,
                   producers, press>>

---------------------------------------------------------------------------
(* ProductionDemo *)

DemoReference == "DEMO123456"

InitDemo ==
    /\ InitIo
    /\ reference_barcode = None
    /\ reference_type = None
    /\ production_mode = FALSE
    /\ stats = [scan_count |-> 0, pass_count |-> 0, fail_count |-> 0]
    /\ last_scan_time = 0
    /\ log_file = <<>>
    /\ now = ScanInterval
    /\ frame = NoFrame
    /\ pc = "sleep"
    /\ last_call = [op |-> "init", ret |-> None]
    /\ last_counted = 0
    /\ started = FALSE
    /\ capture_requested = FALSE
    /\ callback = "idle"
    /\ tones = EmptyBag
    /\ buzzer = FALSE
    /\ producers = <<>>
    /\ press = [unserved |-> FALSE]

(* run_demo:  while True: time.sleep(0.1)  *)
DemoSleep ==
    /\ pc = "sleep"
    /\ now < MaxTime
    /\ now' = now + 1
    /\ UNCHANGED <<variant, iovars, reference_barcode, reference_type, production_mode, stats,
                   last_scan_time, log_file, frame, pc, last_call, last_counted, started,
                   capture_requested, hwvars>>

(* KeyboardInterrupt: cleanup() *)
DemoInterrupt ==
    /\ pc = "sleep"
    /\ pc' = "done"
    /\ production_mode' = FALSE
    /\ buzzer' = FALSE
    /\ UNCHANGED <<variant, iovars, reference_barcode, reference_type, stats, last_scan_time,
                   log_file, now, frame, last_call, last_counted, started,
                   capture_requested, callback, tones, producers, press>>

(* ProductionDemo.handle_capture_button, on the callback thread *)
DemoPressCapture ==
    /\ variant = "demo"
    /\ Running
    /\ reference_barcode' = DemoReference
    /\ Play("capture")
    /\ UNCHANGED <<variant, iovars, reference_type, production_mode, stats, last_scan_time,
                   log_file, now, frame, pc, last_call, last_counted, started,
                   capture_requested, callback, buzzer, producers, press>>

(* ProductionDemo.handle_start_button, on the callback thread; switching
   production on starts a production_thread *)
DemoPressStart ==
    /\ variant = "demo"
    /\ Running
    /\ IF ~Truthy(reference_barcode)
       THEN /\ Play("fail")
            /\ UNCHANGED <<production_mode, producers>>
       ELSE /\ production_mode' = ~production_mode
            /\ IF ~production_mode
               THEN /\ Play("start")
                    /\ Len(producers) < MaxProducers
                    /\ producers' = Append(producers, "scan")
               ELSE /\ Play("stop")
                    /\ UNCHANGED producers
    /\ UNCHANGED <<variant, iovars, reference_barcode, reference_type, stats, last_scan_time,
                   log_file, now, frame, pc, last_call, last_counted, started,
                   capture_requested, callback, buzzer, press>>

(* production_thread: one round of  while self.production_mode:  up to time.sleep(2) *)
ProducerScan(i) ==
    /\ Running
    /\ producers[i] = "scan"
    /\ IF production_mode
       THEN LET n == stats.scan_count + 1
            IN  /\ n <= MaxScans
                /\ stats' = IF n % 5 # 0
                            THEN [stats EXCEPT !.scan_count = n, !.pass_count = @ + 1]
                            ELSE [stats EXCEPT !.scan_count = n, !.fail_count = @ + 1]
                /\ Play(IF n % 5 # 0 THEN "pass" ELSE "fail")
                /\ producers' = [producers EXCEPT ![i] = "sleep"]
       ELSE /\ producers' = RemoveAt(producers, i)
            /\ UNCHANGED <<stats, tones>>
    /\ UNCHANGED <<variant, iovars, reference_barcode, reference_type, production_mode,
                   last_scan_time, log_file, now, frame, pc, last_call, last_counted,
                   started, capture_requested, callback, buzzer, press>>

(* production_thread: time.sleep(2) is over *)
ProducerWake(i) ==
    /\ Running
    /\ producers[i] = "sleep"
    /\ producers' = [producers EXCEPT ![i] = "scan"]
    /\ UNCHANGED <<variant, iovars, reference_barcode, reference_type, production_mode, stats,
                   last_scan_time, log_file, now, frame, pc, last_call, last_counted,
                   started, capture_requested, callback, tones, buzzer, press>>

ProducerStep == \E i \in 1..Len(producers) : ProducerScan(i) \/ ProducerWake(i)

CallbackStep ==
    \/ PressCapture
    \/ PressStart
    \/ StartToggle
    \/ StartReset
    \/ DemoPressCapture
    \/ DemoPressStart

InitGpz ==
    \/ /\ variant = "hw_enhanced"
       /\ InitObject
       /\ frame = NoFrame
       /\ pc = "read"
    \/ /\ variant = "demo"
       /\ InitDemo

NextGpz ==
    \/ HwRead
    \/ HwCheckRequest
    \/ HwCapture
    \/ HwClearRequest
    \/ HwVerify
    \/ HwKeyC
    \/ HwKeyS
    \/ HwCameraLost
    \/ HwKeyQ
    \/ HwKeyR
    \/ HwKeyOther
    \/ PressCapture
    \/ PressStart
    \/ StartToggle
    \/ StartReset
    \/ DemoSleep
    \/ DemoInterrupt
    \/ DemoPressCapture
    \/ DemoPressStart
    \/ ProducerStep
    \/ ToneStep

SpecGpz == InitGpz /\ [][NextGpz]_vars

---------------------------------------------------------------------------
(* The tone threads on their own.  play_buzzer_tone is called by the main
   loop, by the button handlers and by the production threads, and every call
   starts a buzzer_thread that nothing joins or cancels; here the calls come
   in any order and at any time, up to MaxOverlap threads alive at once. *)

MaxOverlap == 3

(* the tone_type arguments of the calls of play_buzzer_tone, by program *)
ToneTypes(v) ==
    IF v = "demo" THEN {"capture", "start", "stop", "pass", "fail"}
    ELSE {"success", "mismatch", "no_barcode", "reference_captured", "start", "stop", "error"}

(* self.play_buzzer_tone(tone_type) *)
PlayTone ==
    /\ variant \in {"hw_enhanced", "demo"}
    /\ Running
    /\ BagCardinality(tones) < MaxOverlap
    /\ \E tone_type \in ToneTypes(variant) :
           tones' = play_buzzer_tone(tones, variant, tone_type)
    /\ observed' = [observed EXCEPT
                      !.threads = IF BagCardinality(tones') > @
                                  THEN BagCardinality(tones') ELSE @]
    /\ UNCHANGED <<variant, GPIO, gpio_setup, gpio_available, last_start_btn_state,
                   last_capture_btn_state, pins, start_presses, capture_presses,
                   buzzer_tests, current_demo_index, reference_barcode, reference_type,
                   production_mode, stats, last_scan_time, log_file, now, frame, pc,
                   last_call, last_counted, started, capture_requested, callback, buzzer,
                   producers, press>>

(* the calls of self.buzzer.on() and self.buzzer.off() that the running
   buzzer_threads have yet to make *)
RECURSIVE StepsLeft(_)
StepsLeft(ts) ==
    IF ts = EmptyBag THEN 0
    ELSE LET t == CHOOSE x \in BagToSet(ts) : TRUE
         IN  (2 * t.left - (IF t.on THEN 1 ELSE 0)) + StepsLeft(ts (-) SetToBag({t}))

NextTones ==
    \/ PlayTone
    \/ ToneStep

SpecTones == InitGpz /\ [][NextTones]_vars

---------------------------------------------------------------------------
(* The verifiers whose constructor sets up the GPIO pins and then its fields:
   HardwareBarcodeVerifier of production_line_verifier_HARDWARE.py
   ("hardware": RPi.GPIO, buttons polled by check_buttons in the main loop) and
   EnhancedBarcodeVerifier of production_line_verifier_ENHANCED.py
   ("enhanced": gpiozero, button handlers on the callback thread).  Their
   counters are the attributes total_scans, passed_scans, mismatched_scans and
   no_barcode_scans, held here in stats. *)

AttributeError == "AttributeError"

(* setup_gpio / setup_hardware: what it leaves in the availability flag *)
setup_gpio(gpio, outcome) ==
    IF gpio = None THEN FALSE
    ELSE IF outcome = "ok" THEN TRUE
    ELSE FALSE

(* __init__ down to the button state tracking: the flag after
   self.setup_gpio() / self.setup_hardware()  ...
   self.gpio_available = False / self.hardware_available = False *)
init_available(gpio, outcome) ==
    LET after_setup == setup_gpio(gpio, outcome)
        after_tracking == FALSE
    IN  after_tracking

(* detect_barcodes: pyzbar.decode(frame) *)
detect_barcodes(f) == pyzbar_decode(f, 1)

(* log_event: one CSV row *)
log_event(self, action, barcode, barcode_type, result, details) ==
    Append(self.log_file,
           [action |-> action, barcode |-> barcode, type |-> barcode_type,
            result |-> result, details |-> details])

(* play_buzzer_tone of these two classes: the buzzer_thread that reaches the
   buzzer pin.  ENHANCED starts the thread only with hardware_available;
   HARDWARE starts it always, and its buzzer_beep leaves the pin alone and runs
   speaker-test without gpio_available. *)
play_buzzer_tone_gpio(ts, v, available, tone_type) ==
    IF tone_type = None \/ ~available THEN ts
    ELSE ts (+) SetToBag({[left |-> Beeps(v, tone_type), on |-> FALSE]})

(* capture_reference of HARDWARE and ENHANCED *)
capture_reference_gpio(v, self, f) ==
    LET barcodes == detect_barcodes(f)
    IN  IF barcodes = <<>> THEN [self |-> self, ret |-> "False", tone |-> "error"]
        ELSE LET barcode == barcodes[1]
                 s1 == [self EXCEPT !.reference_barcode = decode_utf8(barcode.data),
                                    !.reference_type = barcode.type]
             IN  [self |-> [s1 EXCEPT !.log_file =
                                IF v = "hardware"
                                THEN log_event(s1, "REFERENCE_CAPTURED", s1.reference_barcode,
                                               s1.reference_type, "SUCCESS", "")
                                ELSE log_event(s1, "reference_captured", s1.reference_barcode,
                                               s1.reference_type, "success", "")],
                  ret |-> "True", tone |-> "reference_captured"]

(* verify_product of HARDWARE: every scan is counted in total_scans *)
verify_product_hardware(self, f, current_time) ==
    IF current_time - self.last_scan_time < ScanInterval
    THEN [self |-> self, ret |-> None, tone |-> None]
    ELSE
    LET s1 == [self EXCEPT !.last_scan_time = current_time]
        barcodes == detect_barcodes(f)
        s2 == [s1 EXCEPT !.stats.total_scans = @ + 1]
    IN  IF barcodes # <<>>
        THEN LET barcode == barcodes[1]
                 detected_barcode == decode_utf8(barcode.data)
                 detected_type == barcode.type
             IN  IF detected_barcode = self.reference_barcode
                 THEN LET s3 == [s2 EXCEPT !.stats.passed = @ + 1]
                      IN  [self |-> [s3 EXCEPT !.log_file =
                                         log_event(s3, "VERIFICATION", detected_barcode,
                                                   detected_type, "PASS", "")],
                           ret |-> "PASS", tone |-> "pass"]
                 ELSE LET s3 == [s2 EXCEPT !.stats.mismatched = @ + 1]
                      IN  [self |-> [s3 EXCEPT !.log_file =
                                         log_event(s3, "VERIFICATION", detected_barcode,
                                                   detected_type, "MISMATCH",
                                                   self.reference_barcode)],
                           ret |-> "MISMATCH", tone |-> "mismatch"]
        ELSE LET s3 == [s2 EXCEPT !.stats.no_barcode = @ + 1]
             IN  [self |-> [s3 EXCEPT !.log_file =
                                log_event(s3, "VERIFICATION", None, None, "NO_BARCODE", "")],
                  ret |-> "NO_BARCODE", tone |-> "no_barcode"]

(* verify_product of ENHANCED: total_scans counts only the frames with a
   barcode; a frame without one is counted in no_barcode_scans alone and is
   neither logged nor sounded *)
verify_product_enhanced(self, f, current_time) ==
    IF current_time - self.last_scan_time < ScanInterval
    THEN [self |-> self, ret |-> None, tone |-> None]
    ELSE
    LET barcodes == detect_barcodes(f)
        s1 == [self EXCEPT !.last_scan_time = current_time]
    IN  IF barcodes # <<>>
        THEN LET barcode == barcodes[1]
                 barcode_data == decode_utf8(barcode.data)
                 barcode_type == barcode.type
                 s2 == [s1 EXCEPT !.stats.total_scans = @ + 1]
             IN  IF barcode_data = self.reference_barcode
                 THEN LET s3 == [s2 EXCEPT !.stats.passed = @ + 1]
                      IN  [self |-> [s3 EXCEPT !.log_file =
                                         log_event(s3, "product_verified", barcode_data,
                                                   barcode_type, "pass", "")],
                           ret |-> "PASS", tone |-> "pass"]
                 ELSE LET s3 == [s2 EXCEPT !.stats.mismatched = @ + 1]
                      IN  [self |-> [s3 EXCEPT !.log_file =
                                         log_event(s3, "product_verified", barcode_data,
                                                   barcode_type, "mismatch",
                                                   self.reference_barcode)],
                           ret |-> "MISMATCH", tone |-> "mismatch"]
        ELSE [self |-> [s1 EXCEPT !.stats.no_barcode = @ + 1],
              ret |-> "NO_BARCODE", tone |-> None]

verify_product_gpio(v, self, f, current_time) ==
    IF v = "hardware" THEN verify_product_hardware(self, f, current_time)
    ELSE verify_product_enhanced(self, f, current_time)

(* handle_capture_button of HARDWARE: display_status only; it leaves no
   request behind *)
handle_capture_button_hardware(self) == self

(* check_buttons of HARDWARE: the handlers run on a falling edge.  reading and
   last hold the start and the capture button's level. *)
check_buttons(self, available, last, reading) ==
    IF ~available THEN [self |-> self, last |-> last, start |-> FALSE, capture |-> FALSE]
    ELSE LET start_edge == reading.start = LOW /\ last.start = HIGH
             s1 == IF start_edge THEN handle_start_button(self) ELSE self
             capture_edge == reading.capture = LOW /\ last.capture = HIGH
             s2 == IF capture_edge THEN handle_capture_button_hardware(s1) ELSE s1
         IN  [self |-> s2, last |-> reading, start |-> start_edge, capture |-> capture_edge]

(* the frames the camera delivers: no barcode, the product, another product *)
GpioFrames == {Frame(1, <<>>, o, <<>>) :
                  o \in {<<>>, <<Barcode("A", "EAN13")>>, <<Barcode("B", "CODE128")>>}}

NoPress == [unserved |-> FALSE, frames |-> 0]

(* Before the constructor runs: the library that was imported, and whether
   the pins can be set up *)
InitHardware ==
    /\ variant \in {"hardware", "enhanced"}
    /\ \/ /\ variant = "hardware"
          /\ GPIO = None
          /\ gpio_setup = "failed"
       \/ /\ GPIO = (IF variant = "hardware" THEN "RPi.GPIO" ELSE "gpiozero")
          /\ gpio_setup \in {"ok", "failed"}
    /\ gpio_available = FALSE
    /\ last_start_btn_state = HIGH
    /\ last_capture_btn_state = HIGH
    /\ pins = Released
    /\ start_presses = 0
    /\ capture_presses = 0
    /\ buzzer_tests = 0
    /\ observed = NoPolls
    /\ current_demo_index = 0
    /\ reference_barcode = None
    /\ reference_type = None
    /\ production_mode = FALSE
    /\ stats = [total_scans |-> 0, passed |-> 0, mismatched |-> 0, no_barcode |-> 0]
    /\ last_scan_time = 0
    /\ log_file = <<>>
    /\ now = ScanInterval
    /\ last_call = [op |-> "init", ret |-> None]
    /\ last_counted = 0
    /\ started = FALSE
    /\ capture_requested = FALSE
    /\ callback = "idle"
    /\ tones = EmptyBag
    /\ buzzer = FALSE
    /\ producers = <<>>
    /\ press = NoPress
    /\ frame = NoFrame
    /\ pc = "init"

(* verifier = HardwareBarcodeVerifier() / EnhancedBarcodeVerifier(): __init__.
   HARDWARE ends with  self.last_start_btn_state = GPIO.HIGH , which raises
   AttributeError when GPIO is None. *)
Construct ==
    /\ pc = "init"
    /\ gpio_available' = init_available(GPIO, gpio_setup)
    /\ pc' = IF variant = "hardware" /\ GPIO = None THEN AttributeError ELSE "read"
    /\ UNCHANGED <<variant, GPIO, gpio_setup, last_start_btn_state, last_capture_btn_state,
                   pins, start_presses, capture_presses, buzzer_tests, observed, current_demo_index,
                   reference_barcode, reference_type, production_mode, stats,
                   last_scan_time, log_file, now, frame, last_call, last_counted, started,
                   capture_requested, hwvars>>

GpioVariant == variant \in {"hardware", "enhanced"}

(* ret, frame = cap.read() *)
GpioRead ==
    /\ GpioVariant
    /\ pc = "read"
    /\ \E f \in GpioFrames, dt \in {0, ScanInterval} :
        /\ now + dt <= MaxTime
        /\ now' = now + dt
        /\ frame' = f
    /\ pc' = IF variant = "hardware" THEN "buttons" ELSE "request"
    /\ press' = IF press.unserved /\ press.frames < 2
                THEN [press EXCEPT !.frames = @ + 1] ELSE press
    /\ UNCHANGED <<variant, iovars, last_call, reference_barcode, reference_type,
                   production_mode, stats, last_scan_time, log_file, last_counted,
                   started, capture_requested, callback, tones, buzzer, producers>>

(* the capture button is down at this poll and was up at the one before, on
   pins that were set up *)
CapturePressPolled(reading) ==
    /\ GPIO # None
    /\ gpio_setup = "ok"
    /\ reading.capture = LOW
    /\ pins.capture = HIGH

(* the levels the two pins can have at a poll *)
Readings == [start : {HIGH, LOW}, capture : {HIGH, LOW}]

(* self.check_buttons(), the buttons being as the reading says *)
GpioCheckButtons ==
    /\ pc = "buttons"
    /\ pc' = "request"
    /\ \E reading \in Readings :
        /\ LET r == check_buttons(Self, gpio_available,
                                  [start |-> last_start_btn_state,
                                   capture |-> last_capture_btn_state], reading)
           IN  /\ SetSelf(r.self)
               /\ last_start_btn_state' = r.last.start
               /\ last_capture_btn_state' = r.last.capture
               /\ tones' = play_buzzer_tone_gpio(tones, variant, gpio_available,
                                                 IF r.start THEN StartTone(Self) ELSE None)
               /\ started' = (started \/ (~production_mode /\ r.self.production_mode))
        /\ pins' = reading
        /\ press' = IF CapturePressPolled(reading)
                    THEN [unserved |-> TRUE, frames |-> 0] ELSE press
    /\ UNCHANGED <<variant, GPIO, gpio_setup, gpio_available, start_presses,
                   capture_presses, buzzer_tests, observed, current_demo_index, now, frame, last_call,
                   last_counted, callback, buzzer, producers>>

(* if capture_requested: self.capture_reference(frame); capture_requested = False *)
GpioRequest ==
    /\ pc = "request"
    /\ GpioVariant
    /\ pc' = "verify"
    /\ IF capture_requested
       THEN LET r == capture_reference_gpio(variant, Self, frame)
            IN  /\ Len(r.self.log_file) <= MaxHwLog
                /\ SetSelf([r.self EXCEPT !.capture_requested = FALSE])
                /\ tones' = play_buzzer_tone_gpio(tones, variant, gpio_available, r.tone)
                /\ press' = [unserved |-> FALSE, frames |-> 0]
       ELSE /\ SetSelf(Self)
            /\ UNCHANGED <<tones, press>>
    /\ UNCHANGED <<variant, iovars, now, frame, last_call, last_counted, started,
                   callback, buzzer, producers>>

(* if self.production_mode and self.reference_barcode: self.verify_product(frame) *)
GpioVerify ==
    /\ pc = "verify"
    /\ GpioVariant
    /\ pc' = "key"
    /\ IF production_mode /\ Truthy(reference_barcode)
       THEN LET r == verify_product_gpio(variant, Self, frame, now)
            IN  /\ Len(r.self.log_file) <= MaxHwLog
                /\ r.self.stats.no_barcode <= MaxHwLog
                /\ SetSelf(r.self)
                /\ Track(r.self, now)
                /\ tones' = play_buzzer_tone_gpio(tones, variant, gpio_available, r.tone)
       ELSE /\ SetSelf(Self)
            /\ UNCHANGED <<last_counted, started, tones>>
    /\ UNCHANGED <<variant, iovars, now, frame, last_call, callback, buzzer, producers,
                   press>>

(* a key handled; the next iteration reads a new frame *)
GpioKeyStep(next, s) ==
    /\ GpioVariant
    /\ pc = "key"
    /\ pc' = next
    /\ frame' = NoFrame
    /\ SetSelf(s)
    /\ UNCHANGED <<variant, iovars, now, last_call, last_counted, callback, buzzer,
                   producers, press>>

GpioKeyQ == GpioKeyStep("done", Self) /\ UNCHANGED <<started, tones>>

(* 'c': capture_requested = True *)
GpioKeyC ==
    /\ GpioKeyStep("read", [Self EXCEPT !.capture_requested = TRUE])
    /\ UNCHANGED <<started, tones>>

(* 's': self.handle_start_button() *)
GpioKeyS ==
    /\ GpioKeyStep("read", handle_start_button(Self))
    /\ tones' = play_buzzer_tone_gpio(tones, variant, gpio_available, StartTone(Self))
    /\ started' = (started \/ (~production_mode /\ handle_start_button(Self).production_mode))

(* 'h', no key, or a key the loop does not handle *)
GpioKeyOther == GpioKeyStep("read", Self) /\ UNCHANGED <<started, tones>>

(* cap.read() fails: the loop breaks *)
GpioCameraLost ==
    /\ GpioVariant
    /\ pc = "read"
    /\ pc' = "done"
    /\ UNCHANGED <<variant, iovars, reference_barcode, reference_type, production_mode,
                   stats, last_scan_time, log_file, now, frame, last_call, last_counted,
                   started, capture_requested, hwvars>>

(* the handlers  setup_hardware  registered with gpiozero are in place when
   Button() succeeded *)
Registered == variant = "enhanced" /\ gpio_setup = "ok" /\ pc \notin {"init", "done"}

(* EnhancedBarcodeVerifier.handle_capture_button, on the callback thread *)
EnhancedPressCapture ==
    /\ Registered
    /\ SetSelf(handle_capture_button(Self))
    /\ tones' = play_buzzer_tone_gpio(tones, variant, gpio_available, "reference_captured")
    /\ UNCHANGED <<variant, iovars, now, frame, pc, last_call, last_counted, started,
                   callback, buzzer, producers, press>>

(* EnhancedBarcodeVerifier.handle_start_button, on the callback thread *)
EnhancedPressStart ==
    /\ Registered
    /\ SetSelf(handle_start_button(Self))
    /\ tones' = play_buzzer_tone_gpio(tones, variant, gpio_available, StartTone(Self))
    /\ started' = (started \/ (~production_mode /\ handle_start_button(Self).production_mode))
    /\ UNCHANGED <<variant, iovars, now, frame, pc, last_call, last_counted,
                   callback, buzzer, producers, press>>

NextHardware ==
    \/ Construct
    \/ GpioRead
    \/ GpioCheckButtons
    \/ GpioRequest
    \/ GpioVerify
    \/ GpioKeyQ
    \/ GpioKeyC
    \/ GpioKeyS
    \/ GpioKeyOther
    \/ GpioCameraLost
    \/ EnhancedPressCapture
    \/ EnhancedPressStart

SpecHardware == InitHardware /\ [][NextHardware]_vars

---------------------------------------------------------------------------
(* BarcodeProductionVerifier.run_demo_mode ("barcode_demo"): no camera; each
   round reads a command and then, in production mode, counts one simulated
   scan of the current demo barcode *)

demo_barcodes == <<"1234567890123", "9876543210987", "NO_BARCODE">>

(* demo_barcodes[current_demo_index], the index counted from 0 *)
current_barcode(i) == demo_barcodes[i + 1]

(* the command of one round *)
demo_command(self, i, command) ==
    CASE command = "c" ->
           IF current_barcode(i) # "NO_BARCODE"
           THEN LET s1 == [self EXCEPT !.reference_barcode = current_barcode(i),
                                       !.reference_type = "EAN13"]
                IN  [s1 EXCEPT !.log_file =
                         log_result(s1, "REFERENCE_SET", s1.reference_barcode,
                                    s1.reference_type)]
           ELSE self
      [] command = "s" ->
           IF ~Truthy(self.reference_barcode) THEN self
           ELSE [self EXCEPT !.production_mode = ~@]
      [] command = "r" ->
           [self EXCEPT !.reference_barcode = None, !.reference_type = None,
                        !.production_mode = FALSE]
      [] OTHER -> self

(* Simulate production verification if in production mode *)
demo_scan(self, i) ==
    IF ~(self.production_mode /\ Truthy(self.reference_barcode)) THEN self
    ELSE IF current_barcode(i) = "NO_BARCODE"
    THEN LET s1 == [self EXCEPT !.stats.total_scans = @ + 1]
             s2 == [s1 EXCEPT !.stats.no_barcode = @ + 1]
         IN  [s2 EXCEPT !.log_file = log_result(s2, "NO_BARCODE", "", "")]
    ELSE IF current_barcode(i) = self.reference_barcode
    THEN LET s1 == [self EXCEPT !.stats.total_scans = @ + 1]
             s2 == [s1 EXCEPT !.stats.passed = @ + 1]
         IN  [s2 EXCEPT !.log_file = log_result(s2, "PASS", current_barcode(i), "EAN13")]
    ELSE LET s1 == [self EXCEPT !.stats.total_scans = @ + 1]
             s2 == [s1 EXCEPT !.stats.mismatched = @ + 1]
         IN  [s2 EXCEPT !.log_file = log_result(s2, "MISMATCH", current_barcode(i), "EAN13")]

InitDemoMode ==
    /\ variant = "barcode_demo"
    /\ InitObject
    /\ frame = NoFrame
    /\ pc = "command"

(* one round of  while True:  with a command other than 'q', leaving the
   index at i *)
DemoModeRound(command, i) ==
    /\ variant = "barcode_demo"
    /\ pc = "command"
    /\ LET s == demo_scan(demo_command(Self, current_demo_index, command), i)
       IN  /\ Len(s.log_file) <= MaxLog
           /\ SetSelf(s)
           /\ Track(s, now)
    /\ current_demo_index' = i
    /\ UNCHANGED <<variant, GPIO, gpio_setup, gpio_available, last_start_btn_state,
                   last_capture_btn_state, pins, start_presses, capture_presses, buzzer_tests,
                   observed, now, frame, pc, last_call, hwvars>>

DemoModeC == DemoModeRound("c", current_demo_index)

DemoModeS == DemoModeRound("s", current_demo_index)

DemoModeR == DemoModeRound("r", current_demo_index)

(* 'n': current_demo_index = (current_demo_index + 1) % len(demo_barcodes) *)
DemoModeN == DemoModeRound("n", (current_demo_index + 1) % Len(demo_barcodes))

(* 'l' (view_logs only reads the log), or an invalid command *)
DemoModeOther == DemoModeRound("l", current_demo_index)

(* 'q', or KeyboardInterrupt: break *)
DemoModeQ ==
    /\ variant = "barcode_demo"
    /\ pc = "command"
    /\ pc' = "done"
    /\ UNCHANGED <<variant, iovars, reference_barcode, reference_type, production_mode,
                   stats, last_scan_time, log_file, now, frame, last_call, last_counted,
                   started, capture_requested, hwvars>>

NextDemoMode ==
    \/ DemoModeC
    \/ DemoModeS
    \/ DemoModeR
    \/ DemoModeN
    \/ DemoModeOther
    \/ DemoModeQ

---------------------------------------------------------------------------
(* ButtonBuzzerDebugger of debug_hardware/button_buzzer_debug.py ("debugger"):
   test_buttons_continuous polls the two buttons with check_buttons.  A
   KeyboardInterrupt ends the polling between two calls of check_buttons. *)

MaxPresses == 3

Debugger == [last_start_btn_state |-> last_start_btn_state,
             last_capture_btn_state |-> last_capture_btn_state,
             start_presses |-> start_presses, capture_presses |-> capture_presses,
             buzzer_tests |-> buzzer_tests]

SetDebugger(d) ==
    /\ last_start_btn_state' = d.last_start_btn_state
    /\ last_capture_btn_state' = d.last_capture_btn_state
    /\ start_presses' = d.start_presses
    /\ capture_presses' = d.capture_presses
    /\ buzzer_tests' = d.buzzer_tests

(* the pins were set up: a GPIO library was imported and setup_gpio did not
   raise.  On pins that were not set up GPIO.input and GPIO.output raise. *)
PinsReady(gpio, outcome) == gpio # None /\ outcome = "ok"

(* buzzer_beep: without a library it only prints; otherwise the pattern is
   played before it returns and leaves the buzzer off, then
   self.buzzer_tests += 1 ; an exception of GPIO.output is caught *)
buzzer_beep(self, gpio, outcome) ==
    IF PinsReady(gpio, outcome) THEN [self EXCEPT !.buzzer_tests = @ + 1] ELSE self

(* ButtonBuzzerDebugger.handle_start_button, handle_capture_button *)
debugger_handle_start_button(self, gpio, outcome) ==
    buzzer_beep([self EXCEPT !.start_presses = @ + 1], gpio, outcome)

debugger_handle_capture_button(self, gpio, outcome) ==
    buzzer_beep([self EXCEPT !.capture_presses = @ + 1], gpio, outcome)

(* check_buttons calling the handler whenever the pin reads LOW *)
check_buttons_level(self, gpio, outcome, reading) ==
    LET s1 == IF reading.start = LOW
              THEN debugger_handle_start_button(self, gpio, outcome) ELSE self
        s2 == [s1 EXCEPT !.last_start_btn_state = reading.start]
        s3 == IF reading.capture = LOW
              THEN debugger_handle_capture_button(s2, gpio, outcome) ELSE s2
    IN  IF ~PinsReady(gpio, outcome) THEN self
        ELSE [s3 EXCEPT !.last_capture_btn_state = reading.capture]

(* ButtonBuzzerDebugger.check_buttons, the pins reading as given.  The branch
   of RPi.lgpio is the same with 0 and 1 for LOW and HIGH.  Without a library
   it returns at once; the first GPIO.input on pins that were not set up
   raises, and the except clause ends the call. *)
check_buttons_debugger(self, gpio, outcome, reading) ==
    LET s1 == IF reading.start = LOW /\ self.last_start_btn_state = HIGH
              THEN debugger_handle_start_button(self, gpio, outcome) ELSE self
        s2 == [s1 EXCEPT !.last_start_btn_state = reading.start]
        s3 == IF reading.capture = LOW /\ s2.last_capture_btn_state = HIGH
              THEN debugger_handle_capture_button(s2, gpio, outcome) ELSE s2
    IN  IF ~PinsReady(gpio, outcome) THEN self
        ELSE [s3 EXCEPT !.last_capture_btn_state = reading.capture]

(* debugger = ButtonBuzzerDebugger(); the interactive menu is showing *)
InitDebugger ==
    /\ variant = "debugger"
    /\ \/ GPIO = None /\ gpio_setup = "failed"
       \/ GPIO \in {"RPi.GPIO", "RPi.lgpio"} /\ gpio_setup \in {"ok", "failed"}
    /\ gpio_available = FALSE
    /\ last_start_btn_state = HIGH
    /\ last_capture_btn_state = HIGH
    /\ pins = Released
    /\ start_presses = 0
    /\ capture_presses = 0
    /\ buzzer_tests = 0
    /\ observed = NoPolls
    /\ current_demo_index = 0
    /\ reference_barcode = None
    /\ reference_type = None
    /\ production_mode = FALSE
    /\ stats = [total_scans |-> 0, passed |-> 0, mismatched |-> 0, no_barcode |-> 0]
    /\ last_scan_time = 0
    /\ log_file = <<>>
    /\ now = ScanInterval
    /\ last_call = [op |-> "init", ret |-> None]
    /\ last_counted = 0
    /\ started = FALSE
    /\ capture_requested = FALSE
    /\ callback = "idle"
    /\ tones = EmptyBag
    /\ buzzer = FALSE
    /\ producers = <<>>
    /\ press = [unserved |-> FALSE]
    /\ frame = NoFrame
    /\ pc = "menu"

DebuggerStep(from, to) ==
    /\ variant = "debugger"
    /\ pc = from
    /\ pc' = to
    /\ UNCHANGED <<variant, GPIO, gpio_setup, gpio_available, current_demo_index,
                   reference_barcode, reference_type, production_mode, stats,
                   last_scan_time, log_file, now, frame, last_call, last_counted, started,
                   capture_requested, hwvars>>

(* one more HIGH-to-LOW transition of a pin, from the reading of the poll
   before to this one *)
Fall(was, is) == IF was = HIGH /\ is = LOW THEN 1 ELSE 0

(* while True: self.check_buttons(); time.sleep(0.01).  pins and observed
   follow the readings that GPIO.input returned. *)
Poll ==
    /\ IF ~PinsReady(GPIO, gpio_setup)
       THEN /\ SetDebugger(check_buttons_debugger(Debugger, GPIO, gpio_setup, pins))
            /\ UNCHANGED <<pins, observed>>
       ELSE \E reading \in Readings :
            /\ SetDebugger(check_buttons_debugger(Debugger, GPIO, gpio_setup, reading))
            /\ start_presses' <= MaxPresses
            /\ capture_presses' <= MaxPresses
            /\ pins' = reading
            /\ observed' =
                 [start |-> observed.start + Fall(pins.start, reading.start),
                  capture |-> observed.capture + Fall(pins.capture, reading.capture),
                  held |-> IF reading.start = HIGH THEN 0
                           ELSE IF observed.held < 2 THEN observed.held + 1
                           ELSE observed.held,
                  threads |-> observed.threads]
    /\ DebuggerStep("polling", "polling")

(* menu choice 2: test_buttons_continuous *)
MenuButtons ==
    /\ DebuggerStep("menu", "polling")
    /\ UNCHANGED <<last_start_btn_state, last_capture_btn_state, pins, start_presses,
                   capture_presses, buzzer_tests, observed>>

(* KeyboardInterrupt: back to the menu *)
StopPolling ==
    /\ DebuggerStep("polling", "menu")
    /\ UNCHANGED <<last_start_btn_state, last_capture_btn_state, pins, start_presses,
                   capture_presses, buzzer_tests, observed>>

(* menu choice 4: self.buzzer_beep(0.3, "single") *)
MenuBeep ==
    /\ DebuggerStep("menu", "menu")
    /\ buzzer_tests < MaxPresses
    /\ SetDebugger(buzzer_beep(Debugger, GPIO, gpio_setup))
    /\ UNCHANGED <<pins, observed>>

(* menu choice 6 *)
MenuExit ==
    /\ DebuggerStep("menu", "done")
    /\ UNCHANGED <<last_start_btn_state, last_capture_btn_state, pins, start_presses,
                   capture_presses, buzzer_tests, observed>>

NextDebugger ==
    \/ Poll
    \/ MenuButtons
    \/ StopPolling
    \/ MenuBeep
    \/ MenuExit

SpecDebugger == InitDebugger /\ [][NextDebugger]_vars

---------------------------------------------------------------------------
(* The programs that keep the four scan counters together: the keyboard
   verifiers, BARCODE's demo mode, and the two HardwareBarcodeVerifier
   classes *)

InitCounters ==
    \/ Init
    \/ InitDemoMode
    \/ InitHardware /\ variant = "hardware"
    \/ InitGpz /\ variant = "hw_enhanced"

NextCounters ==
    \/ Next
    \/ NextDemoMode
    \/ Construct
    \/ GpioRead
    \/ GpioCheckButtons
    \/ GpioRequest
    \/ GpioVerify
    \/ GpioKeyQ
    \/ GpioKeyC
    \/ GpioKeyS
    \/ GpioKeyOther
    \/ GpioCameraLost
    \/ HwRead
    \/ HwCheckRequest
    \/ HwCapture
    \/ HwClearRequest
    \/ HwVerify
    \/ HwKeyC
    \/ HwKeyS
    \/ HwCameraLost
    \/ HwKeyQ
    \/ HwKeyR
    \/ HwKeyOther
    \/ PressCapture
    \/ PressStart
    \/ StartToggle
    \/ StartReset
    \/ ToneStep

SpecCounters == InitCounters /\ [][NextCounters]_vars

---------------------------------------------------------------------------
(* Properties of the keyboard-driven verifiers *)

Rows(status) == {i \in 1..Len(log_file) : log_file[i].status = status}

EmptyCaptured == \E i \in Rows("REFERENCE_SET") : log_file[i].barcode = ""

(* C1: as long as no captured payload was empty, production_mode is TRUE only
   with a reference set; 's' without a reference leaves production_mode FALSE,
   and 'r' clears the reference and production_mode together. *)
C1_ModeOnlyWithReference ==
    /\ [](~EmptyCaptured => (production_mode => Truthy(reference_barcode)))
    /\ [][(~EmptyCaptured /\ KeyS /\ ~Truthy(reference_barcode)) => ~production_mode']_vars
    /\ [][KeyR => (reference_barcode' = None /\ ~production_mode')]_vars

C1_Witness ==
    /\ production_mode
    /\ Truthy(reference_barcode)
    /\ stats.total_scans > 0

(* the step called verify_product / capture_reference *)
VerifyCalled == last_call'.op = "verify_product"
Ret == last_call'.ret
Detected == detect_barcode(variant, frame')
Counters == {"passed", "mismatched", "no_barcode"}
CounterOf(ret) == CASE ret = "PASS" -> "passed"
                    [] ret = "MISMATCH" -> "mismatched"
                    [] ret = "NO_BARCODE" -> "no_barcode"
                    [] OTHER -> None

(* C2: verify_product with a reference set and the interval elapsed returns
   NO_BARCODE iff nothing is detected, PASS iff the first detected barcode's
   decoded data equals the reference, MISMATCH otherwise, and adds 1 to
   total_scans and to exactly the matching counter; with no reference or the
   interval not elapsed it returns None and changes no counter. *)
C2_VerifyProductResult ==
    [][VerifyCalled =>
        IF Truthy(reference_barcode) /\ now' - last_scan_time >= ScanInterval
        THEN /\ (Ret = "NO_BARCODE") <=> (Detected = <<>>)
             /\ (Ret = "PASS") <=>
                    (Detected # <<>> /\ decode_utf8(Detected[1].data) = reference_barcode)
             /\ (Ret = "MISMATCH") <=>
                    (Detected # <<>> /\ decode_utf8(Detected[1].data) # reference_barcode)
             /\ stats'.total_scans = stats.total_scans + 1
             /\ \A c \in Counters :
                    stats'[c] = stats[c] + (IF c = CounterOf(Ret) THEN 1 ELSE 0)
        ELSE Ret = None /\ stats' = stats]_vars

(* verify_product refused a call made with no reference, after scans were counted *)
C2_Witness ==
    /\ last_call = [op |-> "verify_product", ret |-> None]
    /\ ~Truthy(reference_barcode)
    /\ stats.passed > 0
    /\ stats.mismatched > 0

(* C3: capture_reference returns True and sets reference_barcode and
   reference_type to the data and type of the first detected barcode iff a
   barcode is detected; otherwise it returns False and leaves the reference,
   production_mode, the statistics and the log unchanged. *)
C3_CaptureReference ==
    [][KeyC =>
        LET detected == detect_barcode(variant, frame)
        IN  IF detected # <<>>
            THEN /\ Ret = "True"
                 /\ reference_barcode' = decode_utf8(detected[1].data)
                 /\ reference_type' = detected[1].type
            ELSE /\ Ret = "False"
                 /\ UNCHANGED <<reference_barcode, reference_type, production_mode,
                                stats, log_file>>]_vars

(* a capture failed while a reference was set and production was running *)
C3_Witness ==
    /\ last_call = [op |-> "capture_reference", ret |-> "False"]
    /\ Truthy(reference_barcode)
    /\ production_mode
    /\ stats.total_scans > 0

(* C4: 'r' sets reference_barcode and reference_type to None and
   production_mode to False from any state and leaves the statistics,
   last_scan_time and the log unchanged. *)
C4_ResetFrame ==
    [][KeyR =>
        /\ reference_barcode' = None
        /\ reference_type' = None
        /\ production_mode' = FALSE
        /\ UNCHANGED <<stats, last_scan_time, log_file>>]_vars

(* the reference was reset after scans were counted *)
C4_Witness ==
    /\ reference_barcode = None
    /\ reference_type = None
    /\ ~production_mode
    /\ stats.total_scans > 0
    /\ last_scan_time > 0

Counted == stats'.total_scans > stats.total_scans

(* C5 as claimed: any two counted scans are at least scan_interval apart. *)
C5_ScansThrottled ==
    [][Counted => (stats.total_scans = 0 \/ now' - last_counted >= ScanInterval)]_vars

(* C5 as amended: two successive counted scans are at least scan_interval
   apart unless production was started with 's' between them. *)
C5_ScansThrottledSinceStart ==
    [][Counted =>
        (stats.total_scans = 0 \/ started \/ now' - last_counted >= ScanInterval)]_vars

(* a frame was throttled after a scan, in a production run that was not restarted *)
C5_Witness ==
    /\ production_mode
    /\ ~started
    /\ last_call = [op |-> "verify_product", ret |-> None]
    /\ stats.total_scans >= 2
    /\ now - last_counted < ScanInterval

(* C7: the log rows with status PASS, MISMATCH and NO_BARCODE are as many as
   stats passed, mismatched and no_barcode, and a successful capture appends
   exactly one REFERENCE_SET row whose Barcode and Reference columns both
   hold the new reference. *)
C7_EveryResultLogged ==
    /\ [](/\ Cardinality(Rows("PASS")) = stats.passed
          /\ Cardinality(Rows("MISMATCH")) = stats.mismatched
          /\ Cardinality(Rows("NO_BARCODE")) = stats.no_barcode)
    /\ [][(KeyC /\ Ret = "True") =>
            /\ Len(log_file') = Len(log_file) + 1
            /\ SubSeq(log_file', 1, Len(log_file)) = log_file
            /\ log_file'[Len(log_file')].status = "REFERENCE_SET"
            /\ log_file'[Len(log_file')].barcode = reference_barcode'
            /\ log_file'[Len(log_file')].reference = reference_barcode']_vars
    /\ [][(KeyC /\ Ret = "False") => log_file' = log_file]_vars

(* a reference was captured and scans of each kind were logged *)
C7_Witness ==
    /\ Cardinality(Rows("REFERENCE_SET")) >= 1
    /\ stats.passed >= 1
    /\ stats.no_barcode >= 1
    /\ Len(log_file) = MaxLog

---------------------------------------------------------------------------
(* Properties of detect_barcode *)

Qualifies(b) == b.data # Invalid /\ b.data # ""
Yield(i) == pyzbar_decode(frame, i)
Succeeds(i) == \E j \in 1..Len(Yield(i)) : Qualifies(Yield(i)[j])
FirstQualifying(o) ==
    o[CHOOSE j \in 1..Len(o) : Qualifies(o[j]) /\ \A h \in 1..(j - 1) : ~Qualifies(o[h])]

(* C8: detect_barcode makes its decode attempts in the fixed order and stops
   at the first that succeeds: the result holds at most one barcode, the
   first one with non-empty UTF-8-decodable data of the earliest succeeding
   attempt; no later attempt is run; the result is empty iff no attempt
   yields such a barcode (and then every attempt was run). *)
C8_DetectFirstSuccess ==
    last_call.op = "detect_barcode" =>
        LET result == last_call.ret.all_barcodes
            ran == last_call.ret.ran
            n == Len(Attempts(variant))
            winners == {i \in 1..n : Succeeds(i)}
        IN  /\ Len(result) <= 1
            /\ (result = <<>>) <=> (winners = {})
            /\ (result = <<>>) => (ran = n)
            /\ (result # <<>>) =>
                   /\ ran \in winners
                   /\ \A i \in winners : ran <= i
                   /\ result[1] = FirstQualifying(Yield(ran))

(* an attempt beyond the first six succeeded on its second symbol, after
   earlier attempts yielded only unusable symbols and with a later attempt
   that would have succeeded too *)
C8_Witness ==
    /\ last_call.op = "detect_barcode"
    /\ variant = "barcode"
    /\ last_call.ret.ran = 7
    /\ frame.pre # <<>>
    /\ frame.post # <<>>
    /\ Len(frame.out) = 2
    /\ ~Qualifies(frame.out[1])
    /\ last_call.ret.all_barcodes = <<frame.out[2]>>

---------------------------------------------------------------------------
(* Properties of the gpiozero programs *)

(* a frame is processed in production mode, the first since production was started *)
FirstFrameOfRun ==
    /\ (ReadFrame /\ last_call'.op = "verify_product") \/ HwVerify
    /\ production_mode
    /\ Truthy(reference_barcode)
    /\ started

(* C6: once a start action has switched production_mode from False to True,
   the first frame processed in production mode is scanned at once, not
   throttled. *)
C6_FirstFrameScanned == [][FirstFrameOfRun => Counted]_vars

(* C10: a press of the capture button that no capture_reference attempt has
   followed yet still has capture_requested set, so that the main loop will
   make the attempt (on whatever frame; the claim asks for one read after the
   press). *)
C10_PressServed == press.unserved => capture_requested

Shared == <<production_mode, reference_barcode, capture_requested, stats>>

(* C9 as claimed: only the main loop writes production_mode,
   reference_barcode, capture_requested and the scan counters. *)
C9_OnlyMainLoopWrites ==
    [][(CallbackStep \/ ToneStep \/ ProducerStep) => UNCHANGED Shared]_vars

(* C9 as amended: the tone threads write none of production_mode,
   reference_barcode, capture_requested and the scan counters; the button
   handlers on the callback thread write no scan counter; the
   production_thread threads exist only in the demo and write only the scan
   counters. *)
C9_ToneThreadsOnlyBeep ==
    /\ [][ToneStep => UNCHANGED Shared]_vars
    /\ [][CallbackStep => UNCHANGED stats]_vars
    /\ [][ProducerStep =>
            /\ variant = "demo"
            /\ UNCHANGED <<production_mode, reference_barcode, capture_requested>>]_vars

(* a tone sounds while production runs, scans were counted and a capture
   request of the callback thread is pending *)
C9_Witness ==
    /\ variant = "hw_enhanced"
    /\ buzzer
    /\ production_mode
    /\ capture_requested
    /\ stats.total_scans > 0

(* C15: under every interleaving of handle_start_button on the callback
   thread with the main loop's 'r' and 's', production_mode is True only
   while reference_barcode is set, and the handler never subscripts a
   reference_barcode that is None. *)
C15_HandlerSafe ==
    /\ [](variant = "hw_enhanced" => (production_mode => reference_barcode # None))
    /\ [][StartReset => reference_barcode # None]_vars

(* the handler has found a reference and not yet toggled; the main loop has
   reset the reference meanwhile *)
C15_Witness ==
    /\ variant = "hw_enhanced"
    /\ callback = "checked"
    /\ reference_barcode = None

---------------------------------------------------------------------------
(* Properties of HardwareBarcodeVerifier (RPi.GPIO) and EnhancedBarcodeVerifier *)

Constructed == GpioVariant /\ pc \notin {"init", AttributeError}

(* C11: in production_line_verifier_HARDWARE.py a press of the capture button
   that a poll of check_buttons meets (the pin reads LOW, it read HIGH at the
   poll before, the pins are set up) makes the main loop call capture_reference
   on a following frame: the press is served before the loop has read a second
   frame after that poll. *)
C11_PressCaptured ==
    (variant = "hardware" /\ press.unserved) => press.frames < 2

(* a poll of check_buttons has met a press of the capture button *)
C11_Witness ==
    /\ variant = "hardware"
    /\ press.unserved
    /\ gpio_setup = "ok"
    /\ pc = "request"

(* C12: after construction the availability flag (gpio_available /
   hardware_available) is True exactly when the GPIO setup succeeded. *)
C12_FlagTellsSetup ==
    Constructed => (gpio_available <=> setup_gpio(GPIO, gpio_setup))

(* constructed on pins that were set up *)
C12_Witness ==
    /\ Constructed
    /\ setup_gpio(GPIO, gpio_setup)
    /\ pc = "key"

(* C13: when no GPIO library can be imported (GPIO is None), constructing
   HardwareBarcodeVerifier completes without error and the main loop runs on
   the keyboard alone. *)
C13_SoftwareOnly ==
    (variant = "hardware" /\ GPIO = None) => pc # AttributeError

(* the constructor has run with GPIO = None *)
C13_Witness ==
    /\ variant = "hardware"
    /\ GPIO = None
    /\ pc # "init"

---------------------------------------------------------------------------
(* Properties of the scan counters *)

CounterNames == {"total_scans", "passed", "mismatched", "no_barcode"}

(* C14: in ProductionLineVerifier, BarcodeProductionVerifier (camera loop and
   demo mode) and both HardwareBarcodeVerifier classes, total_scans equals
   passed + mismatched + no_barcode in every reachable state, and no step
   makes any of the four counters smaller (the reset of the reference
   included). *)
C14_CountersAddUp ==
    /\ [](stats.total_scans = stats.passed + stats.mismatched + stats.no_barcode)
    /\ [][\A c \in CounterNames : stats'[c] >= stats[c]]_vars

(* the demo mode has counted a pass and a missing barcode, and the reference
   was reset after them *)
C14_Witness ==
    /\ variant = "barcode_demo"
    /\ stats.passed = 1
    /\ stats.no_barcode = 1
    /\ reference_barcode = None

---------------------------------------------------------------------------
(* Properties of the polled buttons *)

(* C16: check_buttons is falling-edge triggered.  Starting from last state
   HIGH, a poll runs the press handler of a button once if the pin reads LOW
   and read HIGH at the poll before, and not otherwise; a button held LOW over
   several polls is counted once, and start_presses and capture_presses equal
   the number of HIGH-to-LOW transitions between successive polls. *)
C16_FallingEdge ==
    /\ [](variant = "debugger" =>
             /\ start_presses = observed.start
             /\ capture_presses = observed.capture)
    /\ [][Poll =>
             /\ start_presses' = start_presses + Fall(pins.start, pins'.start)
             /\ capture_presses' = capture_presses + Fall(pins.capture, pins'.capture)]_vars

(* the start button has read LOW at two polls on end, after one press; the
   capture button was pressed, let go and pressed again *)
C16_Witness ==
    /\ variant = "debugger"
    /\ observed.held = 2
    /\ start_presses = 1
    /\ capture_presses = 2

---------------------------------------------------------------------------
(* Properties of the tone threads *)

(* C17: however many tone threads started by play_buzzer_tone run at once and
   however their steps interleave, the buzzer is off once every tone thread
   has finished; and every tone pattern ends after a fixed finite number of
   on/off steps: a thread starts with two steps for each of its at most three
   rounds, and every step of a tone thread takes one from the steps left. *)
C17_BuzzerOffAtEnd ==
    /\ [](tones = EmptyBag => ~buzzer)
    /\ [](\A t \in BagToSet(tones) : t.left \in 1..3)
    /\ [][PlayTone => StepsLeft(tones') \in {StepsLeft(tones) + 2 * n : n \in 1..3}]_vars
    /\ [][ToneStep => StepsLeft(tones') = StepsLeft(tones) - 1]_vars

(* three tone threads were alive at once, and all of them have finished *)
C17_Witness ==
    /\ observed.threads = MaxOverlap
    /\ tones = EmptyBag
    /\ ~buzzer

====
